---- MODULE Spec2Model ----
(***************************************************************************)
(* A model of the discrete-event M/M/c queue simulation engine of          *)
(* queue_simulation.py: the Customer objects, the heapq-based event queue, *)
(* QueueSimulation.run and its arrival/departure handlers.                 *)
(*                                                                         *)
(* Times are integers.  A random draw is an input u chosen by the          *)
(* environment; the code's float arithmetic on times (sums, differences,   *)
(* comparisons) is integer arithmetic here.                                *)
(***************************************************************************)
EXTENDS Integers, Sequences, FiniteSets

VARIABLES
    sim,            \* the QueueSimulation instance: a record of its fields
    customers,      \* the Customer objects created so far; an event or the
                    \* waiting queue holds a reference (an index) into it
    pc,             \* "constructed" | "loop" | "returned" | "raised"
    exc,            \* the exception that left run(), "none" if none did
    halted_by,      \* which exit of the while loop ended run()
    max_time,       \* run()'s argument max_time
    max_customers,  \* run()'s argument max_customers
    min_draw,       \* the smallest value the random source can draw
    scheduled,      \* every event given to schedule_event, in call order
    gui,            \* the QueueSimulationGUI object, its worker threads and
                    \* the instances they have created
    result          \* what the latest call of an accessor returned, if no
                    \* step of run() came after it

vars == <<sim, customers, pc, exc, halted_by, max_time, max_customers, min_draw,
          scheduled, gui, result>>

----------------------------------------------------------------------------
(* Bounds of the model *)

MaxServers == 2
DrawRange == 1
MaxEvents == 5
MaxTime == 2
MaxCustomers == 2

----------------------------------------------------------------------------
(* Python values *)

\* None is the empty tuple and a number v is <<v>> wherever the code allows None
None == <<>>
Some(v) == <<v>>

\* Python truthiness of an optional number: None and 0 are falsy
Truthy(x) == x # None /\ x # Some(0)

Max(a, b) == IF a >= b THEN a ELSE b

----------------------------------------------------------------------------
(* Customer *)

Customer(id, arrival_time) ==
    [id |-> id, arrival_time |-> arrival_time,
     service_start_time |-> None, departure_time |-> None]

waiting_time_swapped(c) ==
    IF c.service_start_time = None THEN None
    ELSE Some(c.arrival_time - c.service_start_time[1])

waiting_time(c) ==
    IF c.service_start_time = None THEN None
    ELSE Some(c.service_start_time[1] - c.arrival_time)

system_time(c) ==
    IF c.departure_time = None THEN None
    ELSE Some(c.departure_time[1] - c.arrival_time)

----------------------------------------------------------------------------
(* The event queue: heapq on a list of (time, event_type, data) tuples *)

Event(time, event_type, data) ==
    [time |-> time, event_type |-> event_type, data |-> data]

\* 'arrival' < 'departure' as Python strings
StrLt(s, t) == s = "arrival" /\ t = "departure"

\* a < b on two event tuples: the first differing component decides; two
\* events equal in time and event_type differ in their Customer, and
\* Customer defines no ordering, so the comparison raises TypeError
TupleLt(a, b) ==
    IF a.time # b.time THEN (IF a.time < b.time THEN "true" ELSE "false")
    ELSE IF a.event_type # b.event_type
         THEN (IF StrLt(a.event_type, b.event_type) THEN "true" ELSE "false")
    ELSE IF a.data = b.data THEN "false"
    ELSE "TypeError"

Swap(heap, i, j) == [heap EXCEPT ![i + 1] = heap[j + 1], ![j + 1] = heap[i + 1]]

\* positions are 0-based as in the code; heap[pos + 1] is the list's heap[pos]
RECURSIVE siftdown(_, _, _)
siftdown(heap, startpos, pos) ==
    IF pos > startpos
    THEN LET parentpos == (pos - 1) \div 2
             cmp == TupleLt(heap[pos + 1], heap[parentpos + 1])
         IN  IF cmp = "TypeError" THEN [heap |-> heap, exc |-> "TypeError"]
             ELSE IF cmp = "false" THEN [heap |-> heap, exc |-> "none"]
             ELSE siftdown(Swap(heap, pos, parentpos), startpos, parentpos)
    ELSE [heap |-> heap, exc |-> "none"]

RECURSIVE siftup_from(_, _, _)
siftup_from(heap, startpos, pos) ==
    LET endpos == Len(heap)
        limit == endpos \div 2
    IN  IF pos < limit
        THEN LET left == 2 * pos + 1
                 cmp == IF left + 1 < endpos
                        THEN TupleLt(heap[left + 1], heap[left + 2])
                        ELSE "true"
             IN  IF cmp = "TypeError"
                 THEN [heap |-> heap, exc |-> "TypeError"]
                 ELSE LET childpos == IF cmp = "true" THEN left ELSE left + 1
                      IN  siftup_from(Swap(heap, childpos, pos), startpos, childpos)
        ELSE siftdown(heap, startpos, pos)

siftup(heap, pos) == siftup_from(heap, pos, pos)

heappush(heap, item) ==
    LET h == Append(heap, item)
    IN  siftdown(h, 0, Len(h) - 1)

\* heappop of a non-empty heap: the popped item, the heap left, the exception
heappop(heap) ==
    LET lastelt == heap[Len(heap)]
        rest == SubSeq(heap, 1, Len(heap) - 1)
    IN  IF rest = <<>>
        THEN [item |-> lastelt, heap |-> rest, exc |-> "none"]
        ELSE LET r == siftup([rest EXCEPT ![1] = lastelt], 0)
             IN  [item |-> rest[1], heap |-> r.heap, exc |-> r.exc]

----------------------------------------------------------------------------
(* QueueSimulation *)

QueueSimulation(num_servers, arrival_rate, service_rate) ==
    [num_servers |-> num_servers,
     arrival_rate |-> arrival_rate,
     service_rate |-> service_rate,
     current_time |-> 0,
     event_queue |-> <<>>,
     waiting_queue |-> <<>>,
     busy_servers |-> 0,
     next_customer_id |-> 0,
     customers_arrived |-> 0,
     customers_served |-> 0,
     total_waiting_time |-> 0,
     total_system_time |-> 0,
     queue_length_sum |-> 0,
     last_event_time |-> 0,
     max_queue_length |-> 0,
     time_history |-> <<>>,
     queue_length_history |-> <<>>,
     customers_in_system_history |-> <<>>]

\* The handlers below take and return a world w: the instance, the Customer
\* objects, the exception raised so far and the events scheduled so far.  A
\* step after an exception is skipped: the exception propagates out of run().
World(s, cs, e, log) == [sim |-> s, customers |-> cs, exc |-> e, scheduled |-> log]

\* random.expovariate(lambd) is -ln(1 - random()) / lambd: a division by
\* zero for lambd = 0, and a value of lambd's sign otherwise.  u is the
\* magnitude drawn; every magnitude is possible for every lambd # 0.
expovariate(lambd, u) ==
    IF lambd = 0 THEN [exc |-> "ZeroDivisionError", value |-> 0]
    ELSE IF lambd > 0 THEN [exc |-> "none", value |-> u]
    ELSE [exc |-> "none", value |-> 0 - u]

generate_interarrival_time(s, u) == expovariate(s.arrival_rate, u)

generate_service_time(s, u) == expovariate(s.service_rate, u)

schedule_event(w, time, event_type, data) ==
    IF w.exc # "none" THEN w
    ELSE LET r == heappush(w.sim.event_queue, Event(time, event_type, data))
         IN  [w EXCEPT !.sim.event_queue = r.heap, !.exc = r.exc,
                       !.scheduled = Append(@, Event(time, event_type, data))]

update_statistics_counts_events(w, time_delta) ==
    IF w.exc # "none" THEN w
    ELSE LET queue_length == Len(w.sim.waiting_queue)
         IN  [w EXCEPT
                !.sim.queue_length_sum = @ + queue_length,
                !.sim.max_queue_length = Max(@, queue_length)]

update_statistics(w, time_delta) ==
    IF w.exc # "none" THEN w
    ELSE LET queue_length == Len(w.sim.waiting_queue)
         IN  [w EXCEPT
                !.sim.queue_length_sum = @ + queue_length * time_delta,
                !.sim.max_queue_length = Max(@, queue_length)]

\* self.current_time + <the time drawn>
time_after_zero(s, drawn) == drawn

time_after(s, drawn) == s.current_time + drawn

\* service_start_time = current_time, draw a service time, schedule the
\* departure: the code of both handlers when a customer gets a server
start_service(w, ref, u_svc) ==
    IF w.exc # "none" THEN w
    ELSE LET w1 == [w EXCEPT
                      !.customers[ref].service_start_time = Some(w.sim.current_time)]
             service_time == generate_service_time(w1.sim, u_svc)
         IN  IF service_time.exc # "none"
             THEN [w1 EXCEPT !.exc = service_time.exc]
             ELSE schedule_event(w1, time_after(w1.sim, service_time.value),
                                 "departure", ref)

\* lines 112-116: the next arrival, scheduled whichever branch was taken
schedule_next_arrival(w, u_gap) ==
    IF w.exc # "none" THEN w
    ELSE LET gap == generate_interarrival_time(w.sim, u_gap)
         IN  IF gap.exc # "none"
             THEN [w EXCEPT !.exc = gap.exc]
             ELSE LET next_arrival_time == time_after(w.sim, gap.value)
                      next_customer == Customer(w.sim.next_customer_id, next_arrival_time)
                      w1 == [w EXCEPT !.customers = Append(@, next_customer),
                                      !.sim.next_customer_id = @ + 1]
                  IN  schedule_event(w1, next_arrival_time, "arrival",
                                     Len(w1.customers))

\* if self.busy_servers < self.num_servers
server_available_off_by_one(s) == s.busy_servers <= s.num_servers

server_available(s) == s.busy_servers < s.num_servers

handle_arrival_reschedules_when_served(w, ref, u_svc, u_gap) ==
    IF w.exc # "none" THEN w
    ELSE LET w1 == [w EXCEPT !.sim.customers_arrived = @ + 1]
         IN  IF server_available(w1.sim)
             THEN schedule_next_arrival(
                      start_service([w1 EXCEPT !.sim.busy_servers = @ + 1],
                                    ref, u_svc), u_gap)
             ELSE [w1 EXCEPT !.sim.waiting_queue = Append(@, ref)]

handle_arrival_counts_admitted(w, ref, u_svc, u_gap) ==
    IF w.exc # "none" THEN w
    ELSE LET w2 == IF server_available(w.sim)
                   THEN start_service([w EXCEPT !.sim.customers_arrived = @ + 1,
                                                !.sim.busy_servers = @ + 1],
                                      ref, u_svc)
                   ELSE [w EXCEPT !.sim.waiting_queue = Append(@, ref)]
         IN  schedule_next_arrival(w2, u_gap)

handle_arrival(w, ref, u_svc, u_gap) ==
    IF w.exc # "none" THEN w
    ELSE LET w1 == [w EXCEPT !.sim.customers_arrived = @ + 1]
             w2 == IF server_available(w1.sim)
                   THEN start_service([w1 EXCEPT !.sim.busy_servers = @ + 1],
                                      ref, u_svc)
                   ELSE [w1 EXCEPT !.sim.waiting_queue = Append(@, ref)]
         IN  schedule_next_arrival(w2, u_gap)

\* deque.popleft()
popleft_takes_last(q) == [item |-> q[Len(q)], rest |-> SubSeq(q, 1, Len(q) - 1)]

popleft_keeps_head(q) == [item |-> Head(q), rest |-> q]

popleft(q) == [item |-> Head(q), rest |-> Tail(q)]

handle_departure_frees_server(w, ref, u_svc) ==
    IF w.exc # "none" THEN w
    ELSE LET w1 == [w EXCEPT
                      !.customers[ref].departure_time = Some(w.sim.current_time)]
             customer == w1.customers[ref]
             w2 == [w1 EXCEPT
                      !.sim.customers_served = @ + 1,
                      !.sim.busy_servers = @ - 1,
                      !.sim.total_waiting_time = @ + waiting_time(customer)[1],
                      !.sim.total_system_time = @ + system_time(customer)[1]]
         IN  IF w2.sim.waiting_queue # <<>>
             THEN LET p == popleft(w2.sim.waiting_queue)
                  IN  start_service([w2 EXCEPT !.sim.waiting_queue = p.rest],
                                    p.item, u_svc)
             ELSE w2

handle_departure_keeps_server(w, ref, u_svc) ==
    IF w.exc # "none" THEN w
    ELSE LET w1 == [w EXCEPT
                      !.customers[ref].departure_time = Some(w.sim.current_time)]
             customer == w1.customers[ref]
             w2 == [w1 EXCEPT
                      !.sim.customers_served = @ + 1,
                      !.sim.total_waiting_time = @ + waiting_time(customer)[1],
                      !.sim.total_system_time = @ + system_time(customer)[1]]
         IN  IF w2.sim.waiting_queue # <<>>
             THEN LET p == popleft(w2.sim.waiting_queue)
                  IN  start_service([w2 EXCEPT !.sim.waiting_queue = p.rest],
                                    p.item, u_svc)
             ELSE w2

handle_departure(w, ref, u_svc) ==
    IF w.exc # "none" THEN w
    ELSE LET w1 == [w EXCEPT
                      !.customers[ref].departure_time = Some(w.sim.current_time)]
             customer == w1.customers[ref]
             w2 == [w1 EXCEPT
                      !.sim.customers_served = @ + 1,
                      !.sim.total_waiting_time = @ + waiting_time(customer)[1],
                      !.sim.total_system_time = @ + system_time(customer)[1]]
         IN  IF w2.sim.waiting_queue # <<>>
             THEN LET p == popleft(w2.sim.waiting_queue)
                  IN  start_service([w2 EXCEPT !.sim.waiting_queue = p.rest],
                                    p.item, u_svc)
             ELSE [w2 EXCEPT !.sim.busy_servers = @ - 1]

----------------------------------------------------------------------------
(* run(max_time, max_customers) *)

\* if max_time and event_time > max_time: break
max_time_exceeded_by_clock(s, mt, event_time) == Truthy(mt) /\ s.current_time > mt[1]

max_time_exceeded(s, mt, event_time) == Truthy(mt) /\ event_time > mt[1]

\* if max_customers and self.customers_served >= max_customers: break
max_customers_passed(s, mc) == Truthy(mc) /\ s.customers_served > mc[1]

max_customers_reached(s, mc) == Truthy(mc) /\ s.customers_served >= mc[1]

advance_clock_skips_idle_system(w, event_time) ==
    LET time_delta == event_time - w.sim.last_event_time
        w1 == update_statistics(w, time_delta)
        w2 == [w1 EXCEPT !.sim.current_time = event_time,
                         !.sim.last_event_time = event_time]
        in_system == Len(w2.sim.waiting_queue) + w2.sim.busy_servers
    IN  [w2 EXCEPT
           !.sim.time_history = Append(@, w2.sim.current_time),
           !.sim.queue_length_history = Append(@, Len(w2.sim.waiting_queue)),
           !.sim.customers_in_system_history =
               IF in_system = 0 THEN @ ELSE Append(@, in_system)]

\* lines 160-173 of one loop iteration: statistics, the clock, the histories
advance_clock(w, event_time) ==
    LET time_delta == event_time - w.sim.last_event_time
        w1 == update_statistics(w, time_delta)
        w2 == [w1 EXCEPT !.sim.current_time = event_time,
                         !.sim.last_event_time = event_time]
    IN  [w2 EXCEPT
           !.sim.time_history = Append(@, w2.sim.current_time),
           !.sim.queue_length_history = Append(@, Len(w2.sim.waiting_queue)),
           !.sim.customers_in_system_history =
               Append(@, Len(w2.sim.waiting_queue) + w2.sim.busy_servers)]

TheWorld == World(sim, customers, "none", scheduled)

\* the heappop at the top of a loop iteration
Popped == heappop(sim.event_queue)

\* the magnitudes the random source can draw: DrawRange + 1 values from
\* the smallest one on
Draws == min_draw .. min_draw + DrawRange

\* The loop of an instance whose run has no stop bound that the draws make
\* fire is cut off after MaxEvents processed events.
Unbounded == min_draw = 0 \/ ~(Truthy(max_time) \/ Truthy(max_customers))
WithinEventBound == Unbounded => Len(sim.time_history) < MaxEvents

\* no accessor has returned a value since the latest step of run()
NoResult == [call |-> "none"]

\* QueueSimulationGUI.__init__: no instance, no run in progress, no worker
\* thread started, and nothing queued on the Tk event loop
QueueSimulationGUI ==
    [sim |-> None, is_running |-> FALSE, threads |-> <<>>, instances |-> <<>>,
     after |-> <<>>, main |-> "idle", reading |-> None]

Install(w, nextpc) ==
    /\ sim' = w.sim
    /\ customers' = w.customers
    /\ exc' = w.exc
    /\ scheduled' = w.scheduled
    /\ result' = NoResult
    /\ pc' = IF w.exc # "none" THEN "raised" ELSE nextpc

\* lines 144-148: the first arrival, at the time drawn (not current_time + it)
schedule_first_arrival(w, u_gap) ==
    LET gap == generate_interarrival_time(w.sim, u_gap)
    IN  IF gap.exc # "none"
        THEN [w EXCEPT !.exc = gap.exc]
        ELSE LET first_arrival_time == gap.value
                 first_customer == Customer(w.sim.next_customer_id, first_arrival_time)
                 w1 == [w EXCEPT !.customers = Append(@, first_customer),
                                 !.sim.next_customer_id = @ + 1]
             IN  schedule_event(w1, first_arrival_time, "arrival",
                                Len(w1.customers))

MaxTimeArgs == {None} \cup {Some(t) : t \in 0 .. MaxTime}
MaxCustomersArgs == {None} \cup {Some(n) : n \in 0 .. MaxCustomers}

\* run() is entered and reaches the while loop
Run(mt, mc, u_gap) ==
    /\ pc = "constructed"
    /\ max_time' = mt
    /\ max_customers' = mc
    /\ Install(schedule_first_arrival(TheWorld, u_gap), "loop")
    /\ UNCHANGED <<halted_by, min_draw, gui>>

\* which exit the iteration starting now takes, "none" if it processes the
\* popped event
Exit ==
    IF sim.event_queue = <<>> THEN "empty"
    ELSE IF Popped.exc # "none" THEN "none"
    ELSE IF max_time_exceeded(sim, max_time, Popped.item.time) THEN "max_time"
    ELSE IF max_customers_reached(sim, max_customers) THEN "max_customers"
    ELSE "none"

HaltAtPoppedTime ==
    /\ pc = "loop"
    /\ Exit # "none"
    /\ halted_by' = Exit
    /\ sim' = IF sim.event_queue = <<>> THEN sim
              ELSE [sim EXCEPT !.event_queue = Popped.heap,
                               !.current_time = Popped.item.time]
    /\ pc' = "returned"
    /\ result' = NoResult
    /\ UNCHANGED <<customers, exc, max_time, max_customers, min_draw, scheduled,
                   gui>>

\* the while loop ends: the queue is empty, or the popped event breaks
Halt ==
    /\ pc = "loop"
    /\ Exit # "none"
    /\ halted_by' = Exit
    /\ sim' = IF sim.event_queue = <<>> THEN sim
              ELSE [sim EXCEPT !.event_queue = Popped.heap]
    /\ pc' = "returned"
    /\ result' = NoResult
    /\ UNCHANGED <<customers, exc, max_time, max_customers, min_draw, scheduled,
                   gui>>

\* heappop itself raises: two events it compares are equal in time and kind
PopRaises ==
    /\ pc = "loop"
    /\ sim.event_queue # <<>>
    /\ Popped.exc # "none"
    /\ Install([TheWorld EXCEPT !.sim.event_queue = Popped.heap,
                                !.exc = Popped.exc], "loop")
    /\ UNCHANGED <<halted_by, max_time, max_customers, min_draw, gui>>

Processes(event_type) ==
    /\ pc = "loop"
    /\ sim.event_queue # <<>>
    /\ Popped.exc = "none"
    /\ Exit = "none"
    /\ Popped.item.event_type = event_type
    /\ WithinEventBound

AfterPop == advance_clock([TheWorld EXCEPT !.sim.event_queue = Popped.heap],
                          Popped.item.time)

\* one loop iteration that processes an arrival
ProcessArrival(u_svc, u_gap) ==
    /\ Processes("arrival")
    /\ Install(handle_arrival(AfterPop, Popped.item.data, u_svc, u_gap), "loop")
    /\ UNCHANGED <<halted_by, max_time, max_customers, min_draw, gui>>

\* one loop iteration that processes a departure
ProcessDeparture(u_svc) ==
    /\ Processes("departure")
    /\ Install(handle_departure(AfterPop, Popped.item.data, u_svc), "loop")
    /\ UNCHANGED <<halted_by, max_time, max_customers, min_draw, gui>>

----------------------------------------------------------------------------
(* Specifications *)

\* the rates of a valid configuration
Rates == {1}

Constructed(c, l, m) ==
    /\ sim = QueueSimulation(c, l, m)
    /\ customers = <<>>
    /\ pc = "constructed"
    /\ exc = "none"
    /\ halted_by = "none"
    /\ max_time = None
    /\ max_customers = None
    /\ scheduled = <<>>
    /\ gui = QueueSimulationGUI
    /\ result = NoResult

Init ==
    /\ \E c \in 1 .. MaxServers : \E l \in Rates : \E m \in Rates :
          Constructed(c, l, m)
    /\ min_draw = 0

Next ==
    \/ \E mt \in MaxTimeArgs : \E mc \in MaxCustomersArgs : \E u \in Draws :
          Run(mt, mc, u)
    \/ Halt
    \/ PopRaises
    \/ \E u_svc \in Draws : \E u_gap \in Draws : ProcessArrival(u_svc, u_gap)
    \/ \E u_svc \in Draws : ProcessDeparture(u_svc)

Spec == Init /\ [][Next]_vars

\* The random source draws only positive values, and the one thread that
\* runs the loop keeps running it: the loop never pauses between iterations.
LiveInit ==
    /\ \E c \in 1 .. MaxServers : \E l \in Rates : \E m \in Rates :
          Constructed(c, l, m)
    /\ min_draw = 1

LiveSpec == LiveInit /\ [][Next]_vars /\ WF_vars(Next)

\* QueueSimulation(num_servers, arrival_rate, service_rate) called with
\* arguments of any sign: __init__ stores them as they are
AnyServers == 0 .. MaxServers
AnyRates == {-1, 0, 1}

InitAny ==
    /\ sim = <<>>
    /\ customers = <<>>
    /\ pc = "new"
    /\ exc = "none"
    /\ halted_by = "none"
    /\ max_time = None
    /\ max_customers = None
    /\ scheduled = <<>>
    /\ gui = QueueSimulationGUI
    /\ result = NoResult
    /\ min_draw = 0

Construct(c, l, m) ==
    /\ pc = "new"
    /\ sim' = QueueSimulation(c, l, m)
    /\ pc' = "constructed"
    /\ UNCHANGED <<customers, exc, halted_by, max_time, max_customers, min_draw,
                   scheduled, gui, result>>

NextAny ==
    \/ \E c \in AnyServers : \E l \in AnyRates : \E m \in AnyRates :
          Construct(c, l, m)
    \/ Next

SpecAny == InitAny /\ [][NextAny]_vars

----------------------------------------------------------------------------
(* Python float quotients, kept exact: a fraction in lowest terms with a *)
(* positive denominator.  A denominator of 0 marks the value of an       *)
(* expression in which a division by zero raised ZeroDivisionError.      *)

Abs(x) == IF x < 0 THEN 0 - x ELSE x

RECURSIVE GCD(_, _)
GCD(a, b) == IF b = 0 THEN a ELSE GCD(b, a % b)

Frac(n, d) ==
    IF d = 0 THEN [num |-> 0, den |-> 0]
    ELSE LET g == GCD(Abs(n), Abs(d))
             sgn == IF d < 0 THEN 0 - 1 ELSE 1
         IN  [num |-> sgn * (n \div g), den |-> sgn * (d \div g)]

Num(i) == [num |-> i, den |-> 1]
Raised(x) == x.den = 0

FracAdd(a, b) ==
    IF Raised(a) \/ Raised(b) THEN Frac(0, 0)
    ELSE Frac(a.num * b.den + b.num * a.den, a.den * b.den)

FracSub(a, b) ==
    IF Raised(a) \/ Raised(b) THEN Frac(0, 0)
    ELSE Frac(a.num * b.den - b.num * a.den, a.den * b.den)

FracMul(a, b) ==
    IF Raised(a) \/ Raised(b) THEN Frac(0, 0)
    ELSE Frac(a.num * b.num, a.den * b.den)

\* a / b: ZeroDivisionError when b is zero
FracDiv(a, b) ==
    IF Raised(a) \/ Raised(b) THEN Frac(0, 0)
    ELSE Frac(a.num * b.den, a.den * b.num)

RECURSIVE FracPow(_, _)
FracPow(a, n) == IF n = 0 THEN Num(1) ELSE FracMul(a, FracPow(a, n - 1))

FracLe(a, b) == a.num * b.den <= b.num * a.den
FracLt(a, b) == a.num * b.den < b.num * a.den

----------------------------------------------------------------------------
(* get_statistics() *)

\* line 199: customers_served * (total_system_time / customers_served
\*                               - avg_waiting_time)
busy_time_counts_waiting(s, avg_waiting_time) ==
    FracMul(Num(s.customers_served),
            FracDiv(Num(s.total_system_time), Num(s.customers_served)))

busy_time(s, avg_waiting_time) ==
    FracMul(Num(s.customers_served),
            FracSub(FracDiv(Num(s.total_system_time), Num(s.customers_served)),
                    avg_waiting_time))

\* if self.customers_served == 0
nothing_served_or_arrived(s) == s.customers_arrived = 0

nothing_served(s) == s.customers_served = 0

\* the dictionary get_statistics() builds
statistics(s) ==
    IF nothing_served(s)
    THEN [customers_arrived |-> s.customers_arrived,
          customers_served |-> 0,
          avg_waiting_time |-> Num(0),
          avg_system_time |-> Num(0),
          avg_queue_length |-> Num(0),
          max_queue_length |-> 0,
          server_utilization |-> Num(0),
          current_queue_length |-> Len(s.waiting_queue),
          busy_servers |-> s.busy_servers]
    ELSE LET avg_waiting_time ==
                 FracDiv(Num(s.total_waiting_time), Num(s.customers_served))
             avg_system_time ==
                 FracDiv(Num(s.total_system_time), Num(s.customers_served))
             avg_queue_length ==
                 IF s.current_time > 0
                 THEN FracDiv(Num(s.queue_length_sum), Num(s.current_time))
                 ELSE Num(0)
             server_utilization ==
                 IF s.current_time > 0
                 THEN FracDiv(busy_time(s, avg_waiting_time),
                              Num(s.current_time * s.num_servers))
                 ELSE Num(0)
         IN  [customers_arrived |-> s.customers_arrived,
              customers_served |-> s.customers_served,
              avg_waiting_time |-> avg_waiting_time,
              avg_system_time |-> avg_system_time,
              avg_queue_length |-> avg_queue_length,
              max_queue_length |-> s.max_queue_length,
              server_utilization |-> server_utilization,
              current_queue_length |-> Len(s.waiting_queue),
              busy_servers |-> s.busy_servers,
              current_time |-> s.current_time]

Quotients == {"avg_waiting_time", "avg_system_time", "avg_queue_length",
              "server_utilization"}

\* what a call returns: the dictionary, or the exception a division raised
get_statistics(s) ==
    LET d == statistics(s)
    IN  IF \E k \in Quotients : Raised(d[k])
        THEN [exc |-> "ZeroDivisionError", value |-> <<>>]
        ELSE [exc |-> "none", value |-> d]

GetStatisticsAndResetTotals ==
    /\ pc # "new"
    /\ result' = [call |-> "get_statistics", returned |-> get_statistics(sim)]
    /\ sim' = [sim EXCEPT !.total_waiting_time = 0, !.total_system_time = 0]
    /\ UNCHANGED <<customers, pc, exc, halted_by, max_time, max_customers,
                   min_draw, scheduled, gui>>

\* a caller reads the statistics of the instance, in any state of it
GetStatistics ==
    /\ pc # "new"
    /\ result' = [call |-> "get_statistics", returned |-> get_statistics(sim)]
    /\ UNCHANGED <<sim, customers, pc, exc, halted_by, max_time, max_customers,
                   min_draw, scheduled, gui>>

----------------------------------------------------------------------------
(* get_theoretical_statistics() *)

RECURSIVE factorial(_)
factorial(n) == IF n <= 0 THEN 1 ELSE n * factorial(n - 1)

\* sum((c * rho) ** n / math.factorial(n) for n in range(c)), n counted down
RECURSIVE sum_term(_, _, _)
sum_term(c, rho, n) ==
    IF n <= 0 THEN Num(0)
    ELSE FracAdd(sum_term(c, rho, n - 1),
                 FracDiv(FracPow(FracMul(Num(c), rho), n - 1),
                         Num(factorial(n - 1))))

\* if rho >= 1
unstable_above_one(rho) == FracLt(Num(1), rho)

unstable(rho) == FracLe(Num(1), rho)

Predictions == {"avg_customers_in_system", "avg_customers_in_queue",
                "avg_time_in_system", "avg_time_in_queue"}

\* the dictionary get_theoretical_statistics() builds from rho on
theoretical(s, rho) ==
    IF unstable(rho)
    THEN [utilization |-> rho, note |-> "System is unstable"]
    ELSE IF s.num_servers = 1
    THEN LET lambda_rate == Num(s.arrival_rate)
             mu == Num(s.service_rate)
             spare == FracSub(mu, lambda_rate)
         IN  [utilization |-> rho,
              avg_customers_in_system |-> FracDiv(lambda_rate, spare),
              avg_customers_in_queue |->
                  FracDiv(FracPow(lambda_rate, 2), FracMul(mu, spare)),
              avg_time_in_system |-> FracDiv(Num(1), spare),
              avg_time_in_queue |-> FracDiv(lambda_rate, FracMul(mu, spare))]
    ELSE LET c == s.num_servers
             lambda_rate == Num(s.arrival_rate)
             mu == Num(s.service_rate)
             erlang_c_term ==
                 FracDiv(FracPow(FracMul(Num(c), rho), c),
                         FracMul(Num(factorial(c)), FracSub(Num(1), rho)))
             P0 == FracDiv(Num(1), FracAdd(sum_term(c, rho, c), erlang_c_term))
             C == FracMul(erlang_c_term, P0)
             Lq == FracDiv(FracMul(C, rho), FracSub(Num(1), rho))
             Wq == FracDiv(Lq, lambda_rate)
             W == FracAdd(Wq, FracDiv(Num(1), mu))
             L == FracMul(lambda_rate, W)
         IN  [utilization |-> rho,
              avg_customers_in_system |-> L,
              avg_customers_in_queue |-> Lq,
              avg_time_in_system |-> W,
              avg_time_in_queue |-> Wq]

theoretical_statistics_of_busy_servers(s) ==
    LET rho == FracDiv(Num(s.arrival_rate), Num(s.busy_servers * s.service_rate))
        d == IF Raised(rho) THEN <<>> ELSE theoretical(s, rho)
    IN  IF Raised(rho) \/ \E k \in DOMAIN d \ {"note"} : Raised(d[k])
        THEN [exc |-> "ZeroDivisionError", value |-> <<>>]
        ELSE [exc |-> "none", value |-> d]

get_theoretical_statistics(s) ==
    LET rho == FracDiv(Num(s.arrival_rate), Num(s.num_servers * s.service_rate))
        d == IF Raised(rho) THEN <<>> ELSE theoretical(s, rho)
    IN  IF Raised(rho) \/ \E k \in DOMAIN d \ {"note"} : Raised(d[k])
        THEN [exc |-> "ZeroDivisionError", value |-> <<>>]
        ELSE [exc |-> "none", value |-> d]

\* a caller asks for the predictions, in any state of the instance
GetTheoreticalStatistics ==
    /\ pc # "new"
    /\ result' = [call |-> "get_theoretical_statistics",
                  returned |-> get_theoretical_statistics(sim)]
    /\ UNCHANGED <<sim, customers, pc, exc, halted_by, max_time, max_customers,
                   min_draw, scheduled, gui>>

\* the caller is done with the value an accessor returned
Discard ==
    /\ result # NoResult
    /\ result' = NoResult
    /\ UNCHANGED <<sim, customers, pc, exc, halted_by, max_time, max_customers,
                   min_draw, scheduled, gui>>

\* run() and the two accessors, called in any order on a valid instance; the
\* simulation goes on once the caller has let go of the returned value
NextApi ==
    \/ result = NoResult /\ Next
    \/ GetStatistics
    \/ GetTheoreticalStatistics
    \/ Discard

SpecApi == Init /\ [][NextApi]_vars

\* get_theoretical_statistics() on instances of many configurations
MaxRate == 5

TheoryInit ==
    /\ \E c \in 1 .. MaxServers + 1 : \E l \in 1 .. MaxRate : \E m \in 1 .. MaxRate :
          Constructed(c, l, m)
    /\ min_draw = 0

TheorySpec == TheoryInit /\ [][GetTheoreticalStatistics]_vars

----------------------------------------------------------------------------
(* reset(), and run() called again on the same instance *)

reset_keeps_customer_ids(s) ==
    [QueueSimulation(s.num_servers, s.arrival_rate, s.service_rate)
        EXCEPT !.next_customer_id = s.next_customer_id]

\* self.__init__(self.num_servers, self.arrival_rate, self.service_rate)
reset(s) == QueueSimulation(s.num_servers, s.arrival_rate, s.service_rate)

\* a caller resets the instance, between calls of run(); the Customer
\* objects of the old queues are garbage.  `discarded` remembers how many
\* recorded events the call threw away.
Reset ==
    /\ pc \in {"constructed", "returned", "raised"}
    /\ sim' = reset(sim)
    /\ customers' = <<>>
    /\ scheduled' = <<>>
    /\ pc' = "constructed"
    /\ exc' = "none"
    /\ halted_by' = "none"
    /\ max_time' = None
    /\ max_customers' = None
    /\ result' = [call |-> "reset", returned |-> None,
                  discarded |-> Len(sim.time_history)]
    /\ UNCHANGED <<min_draw, gui>>

NextReset ==
    \/ Next
    \/ Reset

SpecReset == Init /\ [][NextReset]_vars

\* run() is called on an instance whose earlier run() has returned; no more
\* calls once MaxEvents customers were created
RunAgain(mt, mc, u_gap) ==
    /\ pc = "returned"
    /\ sim.next_customer_id < MaxEvents
    /\ max_time' = mt
    /\ max_customers' = mc
    /\ halted_by' = "none"
    /\ Install(schedule_first_arrival(TheWorld, u_gap), "loop")
    /\ UNCHANGED <<min_draw, gui>>

NextRerun ==
    \/ Next
    \/ \E mt \in MaxTimeArgs : \E mc \in MaxCustomersArgs : \E u \in Draws :
          RunAgain(mt, mc, u)

SpecRerun == Init /\ [][NextRerun]_vars

----------------------------------------------------------------------------
(* The GUI: the Run and Reset buttons and update_results on the Tk main   *)
(* thread, and one worker thread per accepted Run click.  An instance the *)
(* GUI creates is kept as the set of threads inside its run() and whether *)
(* a run() of it has returned.                                            *)

MaxThreads == 2

EngineVars == <<sim, customers, pc, exc, halted_by, max_time, max_customers,
                min_draw, scheduled, result>>

Thread == [pc |-> "start", target |-> None]
Instance == [runners |-> {}, returned |-> FALSE]

\* the Run button; validate_parameters accepts the entries
run_simulation ==
    /\ gui.main = "idle"
    /\ ~gui.is_running
    /\ Len(gui.threads) < MaxThreads
    /\ gui' = [gui EXCEPT !.is_running = TRUE, !.threads = Append(@, Thread)]
    /\ UNCHANGED EngineVars

\* the Reset button
reset_simulation ==
    /\ gui.main = "idle"
    /\ gui' = [gui EXCEPT !.sim = None, !.is_running = FALSE]
    /\ UNCHANGED EngineVars

\* _run_simulation_thread, line 248: self.sim = QueueSimulation(...)
CreateInstance(t) ==
    /\ gui.threads[t].pc = "start"
    /\ gui' = [gui EXCEPT !.instances = Append(@, Instance),
                          !.sim = Some(Len(gui.instances) + 1),
                          !.threads[t].pc = "call_run"]
    /\ UNCHANGED EngineVars

\* line 255: self.sim is read again and run() is entered on what it holds
\* now; None has no run(), which raises AttributeError
CallRun(t) ==
    /\ gui.threads[t].pc = "call_run"
    /\ gui' = IF gui.sim = None
              THEN [gui EXCEPT !.threads[t].pc = "raised"]
              ELSE [gui EXCEPT !.instances[gui.sim[1]].runners = @ \cup {t},
                               !.threads[t].target = gui.sim,
                               !.threads[t].pc = "in_run"]
    /\ UNCHANGED EngineVars

\* run() returns to the worker
RunReturns(t) ==
    /\ gui.threads[t].pc = "in_run"
    /\ gui' = [gui EXCEPT
                 !.instances[gui.threads[t].target[1]].runners = @ \ {t},
                 !.instances[gui.threads[t].target[1]].returned = TRUE,
                 !.threads[t].pc = "after_run"]
    /\ UNCHANGED EngineVars

\* run() raises out to the worker's except clause
RunRaises(t) ==
    /\ gui.threads[t].pc = "in_run"
    /\ gui' = [gui EXCEPT
                 !.instances[gui.threads[t].target[1]].runners = @ \ {t},
                 !.threads[t].pc = "raised"]
    /\ UNCHANGED EngineVars

\* line 258: self.root.after(0, self.update_results)
QueueUpdate(t) ==
    /\ gui.threads[t].pc = "after_run"
    /\ gui' = [gui EXCEPT !.after = Append(@, "update_results"),
                          !.threads[t].pc = "finally"]
    /\ UNCHANGED EngineVars

\* line 261: self.root.after(0, lambda: messagebox.showerror(...))
QueueError(t) ==
    /\ gui.threads[t].pc = "raised"
    /\ gui' = [gui EXCEPT !.after = Append(@, "showerror"),
                          !.threads[t].pc = "finally"]
    /\ UNCHANGED EngineVars

\* line 263: finally: self.is_running = False
Finally(t) ==
    /\ gui.threads[t].pc = "finally"
    /\ gui' = [gui EXCEPT !.is_running = FALSE, !.threads[t].pc = "done"]
    /\ UNCHANGED EngineVars

\* the Tk loop runs a queued update_results: lines 267-271, the statistics
\* of self.sim
update_results ==
    /\ gui.main = "idle"
    /\ gui.after # <<>>
    /\ Head(gui.after) = "update_results"
    /\ gui' = IF gui.sim = None
              THEN [gui EXCEPT !.after = Tail(@)]
              ELSE [gui EXCEPT !.after = Tail(@), !.main = "statistics",
                               !.reading = gui.sim]
    /\ UNCHANGED EngineVars

\* lines 284-301: the histories of what self.sim holds now
PlotHistories ==
    /\ gui.main = "statistics"
    /\ gui' = [gui EXCEPT !.main = "histories", !.reading = gui.sim]
    /\ UNCHANGED EngineVars

\* update_results returns to the Tk loop
UpdateDone ==
    /\ gui.main = "histories"
    /\ gui' = [gui EXCEPT !.main = "idle", !.reading = None]
    /\ UNCHANGED EngineVars

\* the Tk loop runs a queued error dialog
ShowError ==
    /\ gui.main = "idle"
    /\ gui.after # <<>>
    /\ Head(gui.after) = "showerror"
    /\ gui' = [gui EXCEPT !.after = Tail(@)]
    /\ UNCHANGED EngineVars

NextGui ==
    \/ run_simulation
    \/ reset_simulation
    \/ update_results
    \/ PlotHistories
    \/ UpdateDone
    \/ ShowError
    \/ \E t \in DOMAIN gui.threads : CreateInstance(t)
    \/ \E t \in DOMAIN gui.threads : CallRun(t)
    \/ \E t \in DOMAIN gui.threads : RunReturns(t)
    \/ \E t \in DOMAIN gui.threads : RunRaises(t)
    \/ \E t \in DOMAIN gui.threads : QueueUpdate(t)
    \/ \E t \in DOMAIN gui.threads : QueueError(t)
    \/ \E t \in DOMAIN gui.threads : Finally(t)

\* the window has just opened; the core's variables stay as constructed
SpecGui == Init /\ [][NextGui]_vars

----------------------------------------------------------------------------
(* Properties *)

Arrivals(q) == {i \in DOMAIN q : q[i].event_type = "arrival"}
Departures(q) == {i \in DOMAIN q : q[i].event_type = "departure"}

\* C1: in every state of a run on a fresh instance with num_servers >= 1 and
\* non-negative draws, 0 <= busy_servers <= num_servers and the waiting FIFO
\* has a length >= 0.
C1_BusyServersInRange ==
    /\ 0 <= sim.busy_servers
    /\ sim.busy_servers <= sim.num_servers
    /\ Len(sim.waiting_queue) >= 0

\* all servers busy, a customer waiting, and a departure already handled
C1_Witness ==
    /\ sim.busy_servers = sim.num_servers
    /\ sim.waiting_queue # <<>>
    /\ sim.customers_served >= 1

\* C2: within one run on a fresh instance current_time never decreases, and
\* the time_delta of every processed event, its time minus last_event_time,
\* is >= 0.
C2_ClockMonotone ==
    [][/\ sim'.current_time >= sim.current_time
       /\ Len(sim'.time_history) > Len(sim.time_history)
             => Popped.item.time - sim.last_event_time >= 0]_vars

\* two events processed at different times
C2_Witness ==
    /\ Len(sim.time_history) >= 2
    /\ sim.time_history[2] > sim.time_history[1]
    /\ sim.current_time > sim.time_history[1]

\* C3: at the start of every loop iteration of a run on a fresh instance
\* exactly one Arrival event is pending in the event queue.
C3_OneArrivalPending ==
    pc = "loop" => Cardinality(Arrivals(sim.event_queue)) = 1

\* a loop iteration starts after arrivals took both branches of the handler
C3_Witness ==
    /\ pc = "loop"
    /\ sim.customers_arrived >= 2
    /\ sim.waiting_queue # <<>>
    /\ Departures(sim.event_queue) # {}
    /\ Cardinality(Arrivals(sim.event_queue)) = 1

Departed == {r \in DOMAIN customers : customers[r].departure_time # None}

\* C4: every customer whose departure has been processed has a
\* waiting_time >= 0 and a system_time >= its waiting_time, and
\* total_waiting_time <= total_system_time.
C4_WaitWithinSystemTime ==
    /\ \A r \in Departed :
          /\ waiting_time(customers[r])[1] >= 0
          /\ system_time(customers[r])[1] >= waiting_time(customers[r])[1]
    /\ sim.total_waiting_time <= sim.total_system_time

\* a customer that waited for a server has departed
C4_Witness ==
    \E r \in Departed :
       /\ waiting_time(customers[r])[1] > 0
       /\ system_time(customers[r])[1] >= waiting_time(customers[r])[1]
       /\ sim.total_waiting_time > 0

\* customers are created in the order their arrivals are processed, so a
\* smaller reference is an earlier arrival
ServiceInArrivalOrder ==
    \A a, b \in DOMAIN customers :
       (a < b /\ customers[b].service_start_time # None)
          => /\ customers[a].service_start_time # None
             /\ customers[a].service_start_time[1] <= customers[b].service_start_time[1]

\* C5: customers begin service in the order their arrivals were processed,
\* and a customer leaves the waiting FIFO only from its head.
C5_FifoService ==
    [][/\ ServiceInArrivalOrder'
       /\ \/ sim'.waiting_queue = sim.waiting_queue
          \/ \E r \in DOMAIN customers : sim'.waiting_queue = Append(sim.waiting_queue, r)
          \/ /\ sim.waiting_queue # <<>>
             /\ sim'.waiting_queue = Tail(sim.waiting_queue)
             /\ customers'[Head(sim.waiting_queue)].service_start_time
                   = Some(sim'.current_time)]_vars

\* a departure took the head of a FIFO that held two customers
C5_Witness ==
    /\ sim.max_queue_length >= 2
    /\ sim.customers_served >= 1
    /\ sim.waiting_queue # <<>>
    /\ customers[2].service_start_time # None
    /\ customers[Head(sim.waiting_queue)].service_start_time = None

\* C6: with max_time = T > 0 no event later than T is processed: the first
\* popped event later than T ends the run, leaving the clock and the
\* histories as they were, so current_time and every entry of time_history
\* stay <= T.
C6_NothingAfterMaxTime ==
    [][(max_time' # None /\ max_time'[1] > 0)
          => /\ sim'.current_time <= max_time'[1]
             /\ \A i \in DOMAIN sim'.time_history :
                   sim'.time_history[i] <= max_time'[1]
             /\ (pc = "loop" /\ Popped.exc = "none"
                    /\ Popped.item.time > max_time'[1])
                   => /\ pc' = "returned"
                      /\ sim'.time_history = sim.time_history
                      /\ sim'.current_time = sim.current_time]_vars

\* the run ended on max_time after processing an event at exactly max_time
C6_Witness ==
    /\ pc = "returned"
    /\ halted_by = "max_time"
    /\ max_time # None
    /\ sim.time_history # <<>>
    /\ sim.current_time = max_time[1]
    /\ sim.event_queue # <<>>

\* C7: with max_customers = N >= 1 customers_served never exceeds N, and it
\* is exactly N when the run halts on this bound.
C7_AtMostMaxCustomers ==
    (pc # "constructed" /\ max_customers # None /\ max_customers[1] >= 1)
       => /\ sim.customers_served <= max_customers[1]
          /\ halted_by = "max_customers"
                => (pc = "returned" /\ sim.customers_served = max_customers[1])

\* the run ended on max_customers with MaxCustomers served
C7_Witness ==
    /\ pc = "returned"
    /\ halted_by = "max_customers"
    /\ max_customers = Some(MaxCustomers)
    /\ sim.customers_served = MaxCustomers

NoEffectiveBound ==
    /\ max_time = None
    /\ max_customers \in {None, Some(0)}

\* C8: run() with no effective stop bound (neither bound given, or
\* max_customers = 0 and no max_time) fails with ConfigError before any event
\* is scheduled, and leaves the instance as it was constructed.
C8_NoBoundIsConfigError ==
    (pc # "constructed" /\ NoEffectiveBound)
       => /\ pc = "raised"
          /\ exc = "ConfigError"
          /\ sim = QueueSimulation(sim.num_servers, sim.arrival_rate, sim.service_rate)
          /\ customers = <<>>

ValidConfig(s) == s.num_servers >= 1 /\ s.arrival_rate > 0 /\ s.service_rate > 0

\* C9: constructing a simulation with num_servers < 1, arrival_rate <= 0 or
\* service_rate <= 0 fails with ConfigError: no instance with such a
\* configuration exists, and none reaches run().
C9_InvalidConfigRejected ==
    pc # "new" => ValidConfig(sim)

HasPositiveBound ==
    \/ (max_time # None /\ max_time[1] > 0)
    \/ (max_customers # None /\ max_customers[1] > 0)

\* C10: with a positive max_time or a positive max_customers, and draws
\* bounded below by a positive constant, run() returns: the loop runs until
\* the stop condition fires, and is left in no other way.
C10_RunReturns ==
    (pc # "constructed" /\ min_draw >= 1 /\ HasPositiveBound)
       => pc \in {"loop", "returned"}

\* the place of a scheduled event in the order of the schedule_event calls
InsertionIndex(e) == CHOOSE i \in DOMAIN scheduled : scheduled[i] = e

\* C12: pending events with equal time are popped in the order in which they
\* were scheduled, whatever their kinds, and no comparison of simultaneous
\* events fails: the event popped at the start of an iteration was scheduled
\* before every event of the same time that stays pending.
C12_TiesPopInInsertionOrder ==
    /\ exc # "TypeError"
    /\ (pc = "loop" /\ sim.event_queue # <<>>)
          => /\ Popped.exc = "none"
             /\ \A i \in DOMAIN Popped.heap :
                   Popped.heap[i].time = Popped.item.time
                      => InsertionIndex(Popped.item) < InsertionIndex(Popped.heap[i])

Frame == <<sim, customers, pc, exc, halted_by, max_time, max_customers,
           min_draw, scheduled, gui>>

\* C13: get_statistics() changes no simulation state, and a second call with
\* no run() step in between returns the snapshot the first call returned.
C13_GetStatisticsReadOnly ==
    [][result'.call = "get_statistics"
          => /\ UNCHANGED Frame
             /\ result'.returned = get_statistics(sim')
             /\ result.call = "get_statistics"
                   => result'.returned = result.returned]_vars

\* get_statistics() has returned between two events of a run with departures
C13_Witness ==
    /\ result.call = "get_statistics"
    /\ pc = "loop"
    /\ sim.customers_served >= 1
    /\ sim.total_system_time > 0

TenFields == {"customers_arrived", "customers_served", "avg_waiting_time",
              "avg_system_time", "avg_queue_length", "max_queue_length",
              "server_utilization", "current_queue_length", "busy_servers",
              "current_time"}

\* C14: in every state, also before any departure, the snapshot that
\* get_statistics() returns holds all ten fields.
C14_SnapshotHasTenFields ==
    result.call = "get_statistics"
       => /\ result.returned.exc = "none"
          /\ DOMAIN result.returned.value = TenFields

\* C15: with customers_served = 0, get_statistics() raises nothing and reports
\* the four averages as zero and the actual customers_arrived, queue length
\* and busy_servers.
C15_ZeroServedReportsZeros ==
    (result.call = "get_statistics" /\ sim.customers_served = 0)
       => /\ result.returned.exc = "none"
          /\ \A k \in Quotients : result.returned.value[k] = Num(0)
          /\ result.returned.value.customers_arrived = sim.customers_arrived
          /\ result.returned.value.current_queue_length = Len(sim.waiting_queue)
          /\ result.returned.value.busy_servers = sim.busy_servers

\* a snapshot taken while customers are in service and waiting, none served
C15_Witness ==
    /\ result.call = "get_statistics"
    /\ sim.customers_served = 0
    /\ sim.customers_arrived >= 2
    /\ sim.waiting_queue # <<>>
    /\ sim.busy_servers >= 1

\* C16: the max_queue_length of the snapshot is the running maximum kept by
\* update_statistics, however many customers have been served.
C16_MaxQueueLengthReported ==
    (result.call = "get_statistics" /\ result.returned.exc = "none")
       => result.returned.value.max_queue_length = sim.max_queue_length

\* C17: 0 <= total_system_time - total_waiting_time
\*        <= current_time * num_servers in every state of a fresh run, and
\* the server_utilization of every snapshot is a fraction in [0, 1].
C17_UtilizationIsFraction ==
    /\ 0 <= sim.total_system_time - sim.total_waiting_time
    /\ sim.total_system_time - sim.total_waiting_time
          <= sim.current_time * sim.num_servers
    /\ result.call = "get_statistics"
          => /\ result.returned.exc = "none"
             /\ FracLe(Num(0), result.returned.value.server_utilization)
             /\ FracLe(result.returned.value.server_utilization, Num(1))

\* a snapshot with a utilization strictly between 0 and 1
C17_Witness ==
    /\ result.call = "get_statistics"
    /\ result.returned.exc = "none"
    /\ FracLt(Num(0), result.returned.value.server_utilization)
    /\ FracLt(result.returned.value.server_utilization, Num(1))
    /\ sim.total_waiting_time > 0

\* C18: get_theoretical_statistics() flags instability exactly when
\* arrival_rate >= num_servers * service_rate, and then returns only the
\* utilization and the note; otherwise it returns the utilization and L, Lq,
\* W, Wq, each finite and >= 0, and no note.
C18_TheoreticalStatistics ==
    result.call = "get_theoretical_statistics"
       => /\ result.returned.exc = "none"
          /\ IF sim.arrival_rate >= sim.num_servers * sim.service_rate
             THEN DOMAIN result.returned.value = {"utilization", "note"}
             ELSE /\ DOMAIN result.returned.value = {"utilization"} \cup Predictions
                  /\ \A k \in Predictions :
                        /\ ~Raised(result.returned.value[k])
                        /\ FracLe(Num(0), result.returned.value[k])

\* the Erlang-C branch has returned a positive queue length, and the
\* unstable branch is reachable at rho = 1 exactly
C18_Witness ==
    /\ result.call = "get_theoretical_statistics"
    /\ sim.num_servers > 1
    /\ sim.arrival_rate < sim.num_servers * sim.service_rate
    /\ FracLt(Num(0), result.returned.value.avg_customers_in_queue)
    /\ FracLt(result.returned.value.avg_time_in_queue,
              result.returned.value.avg_time_in_system)

\* C19: get_theoretical_statistics() changes no simulation state and returns,
\* before, during and after a run, what it returns on a fresh instance of the
\* same num_servers, arrival_rate and service_rate.
C19_TheoreticalIsPure ==
    [][result'.call = "get_theoretical_statistics"
          => /\ UNCHANGED Frame
             /\ result'.returned = get_theoretical_statistics(
                   QueueSimulation(sim.num_servers, sim.arrival_rate,
                                   sim.service_rate))]_vars

\* the predictions have been returned between two events of a run
C19_Witness ==
    /\ result.call = "get_theoretical_statistics"
    /\ result.returned.exc = "none"
    /\ pc = "loop"
    /\ sim.customers_served >= 1
    /\ sim.busy_servers >= 1

IsPrefix(p, q) == Len(p) <= Len(q) /\ SubSeq(q, 1, Len(p)) = p

\* C20: the three histories have one length, customers_arrived +
\* customers_served; a step only appends to them; time_history is
\* non-decreasing.
C20_HistoriesParallel ==
    [][/\ Len(sim'.time_history) = sim'.customers_arrived + sim'.customers_served
       /\ Len(sim'.queue_length_history) = Len(sim'.time_history)
       /\ Len(sim'.customers_in_system_history) = Len(sim'.time_history)
       /\ IsPrefix(sim.time_history, sim'.time_history)
       /\ IsPrefix(sim.queue_length_history, sim'.queue_length_history)
       /\ IsPrefix(sim.customers_in_system_history,
                   sim'.customers_in_system_history)
       /\ \A i \in 1 .. Len(sim'.time_history) - 1 :
             sim'.time_history[i] <= sim'.time_history[i + 1]]_vars

\* arrivals and departures recorded at different times
C20_Witness ==
    /\ Len(sim.time_history) >= 4
    /\ sim.customers_served >= 1
    /\ sim.time_history[1] < sim.time_history[4]
    /\ \E i \in DOMAIN sim.queue_length_history : sim.queue_length_history[i] > 0

\* C21: reset() leaves the instance as a fresh one of the same num_servers,
\* arrival_rate and service_rate: clock 0, empty event queue and waiting
\* FIFO, no busy server, next_customer_id 0, counters and integrals 0,
\* histories empty.
C21_ResetIsFresh ==
    [][result'.call = "reset"
          => /\ sim'.num_servers = sim.num_servers
             /\ sim'.arrival_rate = sim.arrival_rate
             /\ sim'.service_rate = sim.service_rate
             /\ sim'.current_time = 0 /\ sim'.last_event_time = 0
             /\ sim'.event_queue = <<>> /\ sim'.waiting_queue = <<>>
             /\ sim'.busy_servers = 0 /\ sim'.next_customer_id = 0
             /\ sim'.customers_arrived = 0 /\ sim'.customers_served = 0
             /\ sim'.total_waiting_time = 0 /\ sim'.total_system_time = 0
             /\ sim'.queue_length_sum = 0 /\ sim'.max_queue_length = 0
             /\ sim'.time_history = <<>> /\ sim'.queue_length_history = <<>>
             /\ sim'.customers_in_system_history = <<>>
             /\ sim' = QueueSimulation(sim.num_servers, sim.arrival_rate,
                                       sim.service_rate)]_vars

\* reset() has returned on an instance that had processed events
C21_Witness ==
    /\ result.call = "reset"
    /\ result.discarded >= 3
    /\ sim.time_history = <<>>
    /\ pc = "constructed"

\* C28: never more than one Arrival event is pending in the event queue,
\* also when run() is called again on an instance without reset().
C28_OneArrivalAcrossRuns ==
    Cardinality(Arrivals(sim.event_queue)) <= 1

InRun == {t \in DOMAIN gui.threads : gui.threads[t].pc = "in_run"}

\* C22: in the GUI no instance is inside run() on two threads at once, and
\* at most one worker thread is executing run() at any time.
C22_OneThreadPerInstance ==
    /\ \A i \in DOMAIN gui.instances : Cardinality(gui.instances[i].runners) <= 1
    /\ Cardinality(InRun) <= 1

\* C23: update_results reads statistics and histories only from an instance
\* whose run() has returned and that no worker thread is running.
C23_ReadsAfterCompletion ==
    gui.reading # None
       => /\ gui.instances[gui.reading[1]].runners = {}
          /\ gui.instances[gui.reading[1]].returned

\* the sum over the first n recorded events of value * elapsed time, where
\* values[i] stood during the interval that ends at times[i]
RECURSIVE Integral(_, _, _)
Integral(values, times, n) ==
    IF n = 0 THEN 0
    ELSE Integral(values, times, n - 1)
            + values[n] * (times[n] - (IF n = 1 THEN 0 ELSE times[n - 1]))

EventProcessed == Len(sim'.time_history) = Len(sim.time_history) + 1

\* C24: each processed event adds (FIFO length before its handler) * (event
\* time - previous event time) to queue_length_sum, so that after each event
\* queue_length_sum is the time-integral of the FIFO length over
\* [0, current_time].
C24_QueueLengthIntegral ==
    [][EventProcessed
          => /\ sim'.queue_length_sum
                   = sim.queue_length_sum
                        + Len(sim.waiting_queue) * (sim'.current_time - sim.current_time)
             /\ sim.last_event_time = sim.current_time
             /\ sim'.queue_length_sum
                   = Integral(sim'.queue_length_history, sim'.time_history,
                              Len(sim'.time_history))]_vars

\* customers waited over intervals of different lengths
C24_Witness ==
    /\ sim.queue_length_sum >= 2
    /\ sim.max_queue_length >= 1
    /\ Len(sim.time_history) >= 4
    /\ sim.queue_length_sum # sim.max_queue_length * sim.current_time

Min(a, b) == IF a <= b THEN a ELSE b

FullyHandled == pc \in {"loop", "returned"} /\ sim.time_history # <<>>

\* C25: after every fully handled event, busy_servers is
\* min(num_servers, customers_arrived - customers_served), and customers
\* wait only while every server is busy.
C25_WorkConserving ==
    FullyHandled
       => /\ sim.busy_servers
               = Min(sim.num_servers, sim.customers_arrived - sim.customers_served)
          /\ sim.waiting_queue # <<>> => sim.busy_servers = sim.num_servers

\* a departure has handed its server to a waiting customer
C25_Witness ==
    /\ FullyHandled
    /\ sim.customers_served >= 1
    /\ sim.waiting_queue # <<>>
    /\ sim.busy_servers = sim.num_servers

\* the time servers have spent serving up to now: for every customer that
\* started service, from its start to its departure, or to now
RECURSIVE BusyServerTime(_)
BusyServerTime(n) ==
    IF n = 0 THEN 0
    ELSE BusyServerTime(n - 1)
            + (IF customers[n].service_start_time = None THEN 0
               ELSE (IF customers[n].departure_time = None THEN sim.current_time
                     ELSE customers[n].departure_time[1])
                       - customers[n].service_start_time[1])

\* C26: with customers_served >= 1, total_system_time - total_waiting_time,
\* the busy-server-time of server_utilization, is the time servers were
\* occupied serving up to current_time.
C26_BusyTimeIsOccupiedTime ==
    (FullyHandled /\ sim.customers_served >= 1)
       => sim.total_system_time - sim.total_waiting_time
             = BusyServerTime(Len(customers))

Stopped == pc = "loop" /\ pc' = "returned" /\ halted_by' \in {"max_time", "max_customers"}

\* C27: the popped event that makes run() halt is not processed: the clock,
\* last_event_time, the integral, the maximum, the counters, the histories,
\* the waiting FIFO and busy_servers are after run() returns what they were
\* after the last processed event.
C27_HaltingEventNotProcessed ==
    [][Stopped
          => /\ sim' = [sim EXCEPT !.event_queue = sim'.event_queue]
             /\ sim'.current_time = sim.current_time
             /\ sim'.last_event_time = sim.last_event_time
             /\ sim'.time_history = sim.time_history
             /\ sim'.customers_arrived = sim.customers_arrived
             /\ sim'.customers_served = sim.customers_served
             /\ sim'.waiting_queue = sim.waiting_queue
             /\ sim'.busy_servers = sim.busy_servers
             /\ customers' = customers]_vars

\* run() has stopped on max_customers with a later event popped
C27_Witness ==
    /\ pc = "returned"
    /\ halted_by = "max_customers"
    /\ sim.customers_served >= 1
    /\ Len(sim.event_queue) >= 1
    /\ \E i \in DOMAIN sim.event_queue : sim.event_queue[i].time > sim.current_time

\* C29: after every fully handled event, customers_arrived is
\* customers_served + busy_servers + len(waiting_queue), and
\* customers_served <= customers_arrived.
C29_CustomerConservation ==
    FullyHandled
       => /\ sim.customers_arrived
               = sim.customers_served + sim.busy_servers + Len(sim.waiting_queue)
          /\ sim.customers_served <= sim.customers_arrived

\* customers served, in service and waiting at once
C29_Witness ==
    /\ FullyHandled
    /\ sim.customers_served >= 1
    /\ sim.busy_servers >= 1
    /\ sim.waiting_queue # <<>>
    /\ sim.customers_arrived >= 4

\* C30: at the start of every loop iteration the pending Departure events
\* are as many as busy_servers, and no pending event is earlier than
\* current_time.
C30_DeparturesMatchBusyServers ==
    pc = "loop"
       => /\ Cardinality(Departures(sim.event_queue)) = sim.busy_servers
          /\ \A i \in DOMAIN sim.event_queue :
                sim.event_queue[i].time >= sim.current_time

\* two departures pending, later than now
C30_Witness ==
    /\ pc = "loop"
    /\ sim.busy_servers = 2
    /\ Cardinality(Departures(sim.event_queue)) = 2
    /\ sim.customers_served >= 1
    /\ \A i \in DOMAIN sim.event_queue : sim.event_queue[i].time > sim.current_time

\* the Departure events ever scheduled for the customer n, and the pending ones
DeparturesScheduledFor(n) ==
    {i \in DOMAIN scheduled :
        scheduled[i].event_type = "departure" /\ scheduled[i].data = n}
DeparturesPendingFor(n) ==
    {i \in Departures(sim.event_queue) : sim.event_queue[i].data = n}

Waiting(n) == \E i \in DOMAIN sim.waiting_queue : sim.waiting_queue[i] = n

Lifecycle ==
    /\ \A m, n \in DOMAIN customers : customers[m].id = customers[n].id => m = n
    /\ \A n \in DOMAIN customers :
          /\ Cardinality(DeparturesScheduledFor(n)) <= 1
          /\ Cardinality(DeparturesPendingFor(n)) <= 1
          /\ DeparturesPendingFor(n) # {} => ~Waiting(n)

DepartureProcessed == EventProcessed /\ Popped.item.event_type = "departure"

\* C31: every customer has a unique id, gets at most one Departure event and
\* is not in the waiting FIFO while its Departure is pending; when a
\* Departure is processed its customer's service_start_time is set and its
\* departure_time is not; neither field changes once it is set.
C31_CustomerLifecycle ==
    [][/\ Lifecycle
       /\ Lifecycle'
       /\ DepartureProcessed
             => /\ customers[Popped.item.data].service_start_time # None
                /\ customers[Popped.item.data].departure_time = None
                /\ customers'[Popped.item.data].departure_time
                      = Some(sim'.current_time)
       /\ \A n \in DOMAIN customers :
             /\ n \in DOMAIN customers'
             /\ customers'[n].id = customers[n].id
             /\ customers[n].service_start_time # None
                   => customers'[n].service_start_time = customers[n].service_start_time
             /\ customers[n].departure_time # None
                   => customers'[n] = customers[n]]_vars

\* a customer that waited has been served and has left, while the
\* Departure of another one is pending
C31_Witness ==
    /\ \E n \in DOMAIN customers :
          /\ customers[n].departure_time # None
          /\ customers[n].service_start_time[1] > customers[n].arrival_time
    /\ \E n \in DOMAIN customers : DeparturesPendingFor(n) # {}

====
